---- MODULE Spec2Model ----
(***************************************************************************)
(* A model of simple-streams (src/src/simple-streams.ts): the Reader with  *)
(* its controller and bounded buffer, and the Writer with its wait queue.  *)
(*                                                                         *)
(* JavaScript runs one job at a time.  A promise reaction (a .then         *)
(* callback, the continuation of an await) is a microtask: it is appended  *)
(* to the microtask queue `mq` when its promise settles and runs later, in *)
(* FIFO order.  Code of the library's users (the source and sink hooks and *)
(* the callers of read(), write(), close() ...) runs either in a job of    *)
(* its own while the microtask queue is empty (a timer, I/O) or in a       *)
(* microtask of its own ("user"); `userTurn` says that user code is        *)
(* running now.                                                            *)
(*                                                                         *)
(* Values: an item is the positive number of the enqueue() call that       *)
(* carried it, so items are pairwise distinct and ordered by call.         *)
(***************************************************************************)
EXTENDS Integers, Sequences, FiniteSets, TLC

\* ---------------------------------------------------------------- bounds
MaxCap == 2        \* buffer capacities 1..MaxCap are explored
MaxProducer == 3   \* the producer's calls: controller.enqueue(), close(), error()
MaxConsumer == 3   \* the consumer's calls: Reader.read(), Reader.close()
MaxDefer == 1      \* user microtasks waiting in the microtask queue

\* ------------------------------------------------------------- constants
EOF == 0                \* the EOF sentinel, distinct from every item
QueueClosed == -1       \* Error('Queue is closed'), the channel's closed signal
Undefined == -2         \* JavaScript's undefined (no reason given)
Reasons == {-3, -4}     \* application error reasons

\* ---------------------------------------------------------------- helpers
RECURSIVE SeqMap(_, _)
\* events rejecting every pending push / pull of a closing queue
SeqMap(s, kind) ==
  IF s = <<>> THEN <<>>
  ELSE <<[k |-> kind, id |-> Head(s).id, ok |-> FALSE, val |-> Head(s).val]>>
       \o SeqMap(Tail(s), kind)

\* ------------------------------------------------- the bounded channel
\* LimitedBlockingQueue: a queue is [cap, items, closed, reason, pushers,
\* pullers]; every operation returns the new queue and the promises it
\* settled, in settling order, as events [k, id, ok, val].
NewQueue(cap) ==
  [cap |-> cap, items |-> <<>>, closed |-> FALSE, reason |-> Undefined,
   pushers |-> <<>>, pullers |-> <<>>]

ClosedSignal(q) == IF q.reason = Undefined THEN QueueClosed ELSE q.reason

QPush(q, pid, v) ==
  IF q.closed
  THEN [q |-> q,
        ev |-> <<[k |-> "push", id |-> pid, ok |-> FALSE, val |-> v]>>]
  ELSE IF q.pullers # <<>>
  THEN [q |-> [q EXCEPT !.pullers = Tail(@)],
        ev |-> <<[k |-> "pull", id |-> Head(q.pullers).id, ok |-> TRUE, val |-> v],
                 [k |-> "push", id |-> pid, ok |-> TRUE, val |-> v]>>]
  ELSE IF Len(q.items) < q.cap
  THEN [q |-> [q EXCEPT !.items = Append(@, v)],
        ev |-> <<[k |-> "push", id |-> pid, ok |-> TRUE, val |-> v]>>]
  ELSE [q |-> [q EXCEPT !.pushers = Append(@, [id |-> pid, val |-> v])],
        ev |-> <<>>]

QPull(q, rid) ==
  IF q.items # <<>>
  THEN IF q.pushers # <<>>
       THEN [q |-> [q EXCEPT !.items = Append(Tail(@), Head(q.pushers).val),
                             !.pushers = Tail(@)],
             ev |-> <<[k |-> "pull", id |-> rid, ok |-> TRUE, val |-> Head(q.items)],
                      [k |-> "push", id |-> Head(q.pushers).id, ok |-> TRUE,
                       val |-> Head(q.pushers).val]>>]
       ELSE [q |-> [q EXCEPT !.items = Tail(@)],
             ev |-> <<[k |-> "pull", id |-> rid, ok |-> TRUE, val |-> Head(q.items)]>>]
  ELSE IF q.closed
  THEN [q |-> q,
        ev |-> <<[k |-> "pull", id |-> rid, ok |-> FALSE, val |-> ClosedSignal(q)]>>]
  ELSE [q |-> [q EXCEPT !.pullers = Append(@, [id |-> rid, val |-> Undefined])],
        ev |-> <<>>]

QClose(q, reason, flushRemaining) ==
  LET q1 == [q EXCEPT !.closed = TRUE,
                      !.reason = IF q.closed THEN @ ELSE reason,
                      !.items = IF flushRemaining THEN @ ELSE <<>>,
                      !.pushers = <<>>,
                      !.pullers = <<>>]
  IN [q |-> q1,
      ev |-> [i \in 1..Len(q.pullers) |->
                [k |-> "pull", id |-> q.pullers[i].id, ok |-> FALSE,
                 val |-> ClosedSignal(q1)]]
             \o SeqMap(q.pushers, "push")]

\* ------------------------------------------------------------- the state
VARIABLES
  rd,          \* the Reader: closed, isError, error, pullAlg (set or not), buffer
  reads,       \* the read() calls, in call order: the state of each promise
  enqs,        \* the controller.enqueue() calls, in call order
  ctlCloses,   \* the controller.close() calls, in call order
  accepted,    \* what the channel accepted so far, in order
  errCalls,    \* number of controller.error() calls
  errReason,   \* the reason given to the error() call that found the Reader open
  rdCloses,    \* number of Reader.close() calls
  cancelCalls, \* number of invocations of the source's cancel hook
  wr,          \* the Writer: isClosed, isError, error, isStarted, waitingWrites,
               \* writePending
  wstart,      \* the promise of the sink's start hook, and startPromise
  startWaiters,\* the reactions waiting for startPromise, in registration order
  writes,      \* the write() calls, in call order: the state of each promise
  sinkLog,     \* the chunks handed to the sink's write hook, in order
  wOther,      \* number of close(), abort() and controller.error() calls
  closeHookCalls, \* number of invocations of the sink's close hook
  abortHookCalls, \* number of invocations of the sink's abort hook
  mq,          \* the microtask queue
  userTurn,    \* user code is running
  rstart,      \* the promise of the source's start hook
  pulls,       \* the invocations of the source's pull hook, in order
  iter,        \* the 'for await' loop over the Reader
  nT,          \* the number of Transformers in the chain
  tailKind,    \* what ends the chain: "writer" (pipeTo) or "user" (read())
  pR,          \* the Readers of the chain
  pW,          \* the Writers of the chain
  pump,        \* the pumps: where each is, and the chunk or reason it holds
  pacc,        \* what the channel of each Reader accepted so far, in order
  psink,       \* the chunks handed to the write hook of pipeTo's destination
  ureads,      \* the user's read() calls on the last Reader of the chain
  pcalls,      \* number of calls on the controller of the source
  flushCalls,  \* number of invocations of each Transformer's flush hook
  pipeCloseCalls, \* number of invocations of the destination's close hook
  aborted      \* the reasons each Writer's abort() was called with

rvars == <<rd, reads, enqs, ctlCloses, accepted, errCalls, errReason, rdCloses,
           cancelCalls>>

wvars == <<wr, wstart, startWaiters, writes, sinkLog, wOther, closeHookCalls,
           abortHookCalls>>

pvars == <<nT, tailKind, pR, pW, pump, pacc, psink, ureads, pcalls, flushCalls,
           pipeCloseCalls, aborted>>

xvars == <<rstart, pulls, iter, pvars>>

Task(t, id, ok, val) == [t |-> t, id |-> id, ok |-> ok, val |-> val]
UserTask == Task("user", 0, TRUE, Undefined)

\* User code runs in a job of its own when no microtask is waiting, or
\* goes on in the job it is running in.
UserCtx == userTurn \/ mq = <<>>

RECURSIVE LimitUser(_, _)
\* at most MaxDefer user microtasks wait in the queue (a bound of the model)
LimitUser(q, n) ==
  IF q = <<>> THEN <<>>
  ELSE IF Head(q).t = "user"
       THEN IF n >= MaxDefer THEN LimitUser(Tail(q), n)
            ELSE <<Head(q)>> \o LimitUser(Tail(q), n + 1)
       ELSE <<Head(q)>> \o LimitUser(Tail(q), n)

Enqueued(q, tasks) == LimitUser(q \o tasks, 0)

\* ------------------------------------------- Reader: the code's functions
\* mutant: enqueue() on a full channel resolves at once and drops the chunk
enqueue_no_wait(r, pid, chunk) ==
  IF r.closed
  THEN [rd |-> r,
        ev |-> <<[k |-> "push", id |-> pid, ok |-> FALSE, val |-> chunk]>>]
  ELSE IF Len(r.buffer.items) >= r.buffer.cap /\ r.buffer.pullers = <<>>
  THEN [rd |-> r,
        ev |-> <<[k |-> "push", id |-> pid, ok |-> TRUE, val |-> chunk]>>]
  ELSE LET p == QPush(r.buffer, pid, chunk)
       IN [rd |-> [r EXCEPT !.buffer = p.q], ev |-> p.ev]

\* mutant: enqueue() stores the chunk without waiting for a free slot
enqueue_unbounded(r, pid, chunk) ==
  IF r.closed
  THEN [rd |-> r,
        ev |-> <<[k |-> "push", id |-> pid, ok |-> FALSE, val |-> chunk]>>]
  ELSE [rd |-> [r EXCEPT !.buffer.items = Append(@, chunk)],
        ev |-> <<[k |-> "push", id |-> pid, ok |-> TRUE, val |-> chunk]>>]

\* controller.enqueue(chunk); pid is the promise it returns
enqueue(r, pid, chunk) ==
  IF r.closed
  THEN [rd |-> r,
        ev |-> <<[k |-> "push", id |-> pid, ok |-> FALSE, val |-> chunk]>>]
  ELSE LET p == QPush(r.buffer, pid, chunk)
       IN [rd |-> [r EXCEPT !.buffer = p.q], ev |-> p.ev]

\* mutant: controller.close() closes the channel at once, discarding
Controller_close_discarding(r, cid) ==
  IF r.closed
  THEN [rd |-> r, ev |-> <<>>, noop |-> TRUE]
  ELSE LET c == QClose(r.buffer, Undefined, FALSE)
       IN [rd |-> [r EXCEPT !.pullAlg = FALSE, !.closed = TRUE, !.buffer = c.q],
           ev |-> c.ev, noop |-> FALSE]

\* controller.close(): the synchronous part; cid is the promise it returns
Controller_close(r, cid) ==
  IF r.closed
  THEN [rd |-> r, ev |-> <<>>, noop |-> TRUE]
  ELSE LET p == QPush(r.buffer, cid, EOF)
       IN [rd |-> [r EXCEPT !.pullAlg = FALSE, !.buffer = p.q],
           ev |-> p.ev, noop |-> FALSE]

\* mutant: the buffer is closed in discard mode after EOF
Controller_close_then_discard(r) ==
  LET c == QClose(r.buffer, Undefined, FALSE)
  IN [rd |-> [r EXCEPT !.closed = TRUE, !.buffer = c.q], ev |-> c.ev]

\* controller.close(): the reaction to the acceptance of EOF
Controller_close_then(r) ==
  LET c == QClose(r.buffer, Undefined, TRUE)
  IN [rd |-> [r EXCEPT !.closed = TRUE, !.buffer = c.q], ev |-> c.ev]

\* mutant: error() flushes, it lets the buffered items be read
error_flush(r, reason) ==
  IF r.closed \/ r.isError
  THEN [rd |-> r, ev |-> <<>>]
  ELSE LET c == QClose(r.buffer, reason, TRUE)
       IN [rd |-> [r EXCEPT !.isError = TRUE, !.error = reason,
                            !.pullAlg = FALSE, !.buffer = c.q],
           ev |-> c.ev]

\* mutant: error() sets the flags and leaves the buffer open
error_keeps_buffer_open(r, reason) ==
  IF r.closed \/ r.isError
  THEN [rd |-> r, ev |-> <<>>]
  ELSE [rd |-> [r EXCEPT !.isError = TRUE, !.error = reason, !.pullAlg = FALSE],
        ev |-> <<>>]

\* controller.error(reason)
error(r, reason) ==
  IF r.closed \/ r.isError
  THEN [rd |-> r, ev |-> <<>>]
  ELSE LET c == QClose(r.buffer, reason, FALSE)
       IN [rd |-> [r EXCEPT !.isError = TRUE, !.error = reason,
                            !.pullAlg = FALSE, !.buffer = c.q],
           ev |-> c.ev]

\* Reader.read(): the synchronous part, buffer.pull()
read(r, rid) ==
  LET p == QPull(r.buffer, rid)
  IN [rd |-> [r EXCEPT !.buffer = p.q], ev |-> p.ev]

\* Reader.read(): the reaction to a fulfilled pull
read_fulfilled(r, chunk) ==
  IF chunk = EOF
  THEN [rd |-> [r EXCEPT !.closed = TRUE], st |-> "done", v |-> Undefined]
  ELSE [rd |-> r, st |-> "val", v |-> chunk]

\* mutant: the closed signal of the channel is passed on as a rejection
read_rejected_passes_signal(r, e) ==
  IF r.isError THEN [rd |-> r, st |-> "rej", v |-> r.error]
  ELSE [rd |-> r, st |-> "rej", v |-> e]

\* mutant: a rejected pull always ends the sequence
read_rejected_hides_error(r, e) == [rd |-> r, st |-> "done", v |-> Undefined]

\* Reader.read(): the reaction to a rejected pull
read_rejected(r, e) ==
  IF r.isError THEN [rd |-> r, st |-> "rej", v |-> r.error]
  ELSE IF e = QueueClosed THEN [rd |-> r, st |-> "done", v |-> Undefined]
  ELSE [rd |-> r, st |-> "rej", v |-> e]

\* mutant: Reader.close() marks the Reader closed and forgets the buffer
Reader_close_keeps_buffer_open(r) ==
  [rd |-> [r EXCEPT !.closed = TRUE], ev |-> <<>>]

\* mutant: Reader.close() closes the buffer in flush mode
Reader_close_flush(r) ==
  LET c == QClose(r.buffer, Undefined, TRUE)
  IN [rd |-> [r EXCEPT !.closed = TRUE, !.buffer = c.q], ev |-> c.ev]

\* Reader.close(): up to the call of the cancel hook
Reader_close(r) ==
  LET c == QClose(r.buffer, Undefined, FALSE)
  IN [rd |-> [r EXCEPT !.closed = TRUE, !.buffer = c.q], ev |-> c.ev]

\* ------------------------------------ settled promises and their reactions
RECURSIVE ReadsAfter(_, _)
\* a settled pull: its read() has been handed its outcome
ReadsAfter(rs, ev) ==
  IF ev = <<>> THEN rs
  ELSE IF Head(ev).k = "pull"
       THEN ReadsAfter([rs EXCEPT ![Head(ev).id].st = "handed"], Tail(ev))
       ELSE ReadsAfter(rs, Tail(ev))

RECURSIVE EnqsAfter(_, _)
\* a settled push of an item: enqueue()'s promise is that push's promise
EnqsAfter(es, ev) ==
  IF ev = <<>> THEN es
  ELSE IF Head(ev).k = "push" /\ Head(ev).val # EOF
       THEN EnqsAfter([es EXCEPT ![Head(ev).id].st =
                          IF Head(ev).ok THEN "ok" ELSE "rej"], Tail(ev))
       ELSE EnqsAfter(es, Tail(ev))

RECURSIVE ClosesAfter(_, _)
\* a rejected push of EOF rejects controller.close()'s promise (no handler)
ClosesAfter(cs, ev) ==
  IF ev = <<>> THEN cs
  ELSE IF Head(ev).k = "push" /\ Head(ev).val = EOF /\ ~Head(ev).ok
       THEN ClosesAfter([cs EXCEPT ![Head(ev).id] = "rej"], Tail(ev))
       ELSE ClosesAfter(cs, Tail(ev))

RECURSIVE AcceptedAfter(_, _)
AcceptedAfter(acc, ev) ==
  IF ev = <<>> THEN acc
  ELSE IF Head(ev).k = "push" /\ Head(ev).ok
       THEN AcceptedAfter(Append(acc, Head(ev).val), Tail(ev))
       ELSE AcceptedAfter(acc, Tail(ev))

RECURSIVE TasksOf(_)
\* the microtasks the settled promises queue: read()'s reaction to its
\* pull, controller.close()'s reaction to the push of EOF, and the user's
\* reaction to a settled enqueue()
TasksOf(ev) ==
  IF ev = <<>> THEN <<>>
  ELSE (IF Head(ev).k = "pull"
        THEN <<Task("readThen", Head(ev).id, Head(ev).ok, Head(ev).val)>>
        ELSE IF Head(ev).val = EOF
        THEN IF Head(ev).ok THEN <<Task("closeThen", Head(ev).id, TRUE, EOF)>>
             ELSE <<UserTask>>
        ELSE <<UserTask>>)
       \o TasksOf(Tail(ev))

\* the effect of the events `ev` on the promises, with the Reader now `r`
Settle(r, rs, es, cs, ev) ==
  /\ rd' = r
  /\ reads' = ReadsAfter(rs, ev)
  /\ enqs' = EnqsAfter(es, ev)
  /\ ctlCloses' = ClosesAfter(cs, ev)
  /\ accepted' = AcceptedAfter(accepted, ev)

\* ------------------------------------------------------------ Reader: Init
\* new Reader(source, {bufferSize}) of a source with a pull hook
NewReader(cap) ==
  [closed |-> FALSE, isError |-> FALSE, error |-> Undefined,
   pullAlg |-> TRUE, buffer |-> NewQueue(cap)]

InitReader ==
  /\ rd \in {NewReader(cap) : cap \in 1..MaxCap}
  /\ reads = <<>>
  /\ enqs = <<>>
  /\ ctlCloses = <<>>
  /\ accepted = <<>>
  /\ errCalls = 0
  /\ errReason = Undefined
  /\ rdCloses = 0
  /\ cancelCalls = 0

\* the calls made so far by the producer and by the consumer
ProducerCalls == Len(enqs) + Len(ctlCloses) + errCalls
ConsumerCalls == Len(reads) + rdCloses

Final(st) == st \in {"val", "done", "rej"}

\* what a call of controller.error() or Reader.close() finds a read() doing
Found(rdr, old) ==
  IF old # "none" \/ Final(rdr.st) THEN old
  ELSE IF rdr.st = "wait" THEN "pend" ELSE "handed"

\* the start hook of the source is running, no 'for await' loop has begun
InitExtra ==
  /\ rstart = "pending"
  /\ pulls = <<>>
  /\ iter = "none"

\* ----------------------------------------------------- Reader: user calls
\* reader.read(), whoever calls it
ReadCall ==
  /\ UserCtx
  /\ ConsumerCalls < MaxConsumer
  /\ LET rid == Len(reads) + 1
         p == read(rd, rid)
         new == [st |-> "wait", v |-> Undefined,
                 seq |-> \A i \in 1..Len(reads) : Final(reads[i].st),
                 early |-> enqs = <<>> /\ ctlCloses = <<>>,
                 err |-> IF rd.isError THEN "after" ELSE "none",
                 cls |-> IF rdCloses > 0 THEN "after" ELSE "none"]
     IN /\ Settle(p.rd, Append(reads, new), enqs, ctlCloses, p.ev)
        /\ mq' = Enqueued(mq, TasksOf(p.ev))
  /\ userTurn' = (mq' # <<>>)
  /\ UNCHANGED <<errCalls, errReason, rdCloses, cancelCalls, wvars>>

\* reader.read(), called by the consumer
Read == ReadCall /\ UNCHANGED xvars

\* controller.enqueue(chunk), the chunk being the number of the call
Enqueue ==
  /\ UserCtx
  /\ ProducerCalls < MaxProducer
  /\ LET pid == Len(enqs) + 1
         p == enqueue(rd, pid, pid)
         new == [st |-> "pend",
                 term |-> rd.closed \/ rd.isError,
                 late |-> ctlCloses # <<>>]
     IN /\ Settle(p.rd, reads, Append(enqs, new), ctlCloses, p.ev)
        /\ mq' = Enqueued(mq, TasksOf(p.ev))
  /\ userTurn' = (mq' # <<>>)
  /\ UNCHANGED <<errCalls, errReason, rdCloses, cancelCalls, wvars, xvars>>

\* controller.close()
CtlClose ==
  /\ UserCtx
  /\ ProducerCalls < MaxProducer
  /\ LET cid == Len(ctlCloses) + 1
         p == Controller_close(rd, cid)
     IN /\ Settle(p.rd, reads, enqs,
                  Append(ctlCloses, IF p.noop THEN "noop" ELSE "pend"), p.ev)
        /\ mq' = Enqueued(mq, TasksOf(p.ev))
  /\ userTurn' = (mq' # <<>>)
  /\ UNCHANGED <<errCalls, errReason, rdCloses, cancelCalls, wvars, xvars>>

\* controller.error(reason)
CtlError ==
  /\ UserCtx
  /\ ProducerCalls < MaxProducer
  /\ \E reason \in Reasons :
       LET p == error(rd, reason)
           open == ~rd.closed /\ ~rd.isError
           rs == [i \in 1..Len(reads) |->
                    IF open THEN [reads[i] EXCEPT !.err = Found(reads[i], @)]
                    ELSE reads[i]]
       IN /\ Settle(p.rd, rs, enqs, ctlCloses, p.ev)
          /\ mq' = Enqueued(mq, TasksOf(p.ev))
          /\ errReason' = IF open THEN reason ELSE errReason
  /\ errCalls' = errCalls + 1
  /\ userTurn' = (mq' # <<>>)
  /\ UNCHANGED <<rdCloses, cancelCalls, wvars, xvars>>

\* reader.close(): closes the buffer and calls the cancel hook
RdClose ==
  /\ UserCtx
  /\ ConsumerCalls < MaxConsumer
  /\ LET p == Reader_close(rd)
         rs == [i \in 1..Len(reads) |-> [reads[i] EXCEPT !.cls = Found(reads[i], @)]]
     IN /\ Settle(p.rd, rs, enqs, ctlCloses, p.ev)
        /\ mq' = Enqueued(mq, TasksOf(p.ev))
  /\ rdCloses' = rdCloses + 1
  /\ cancelCalls' = cancelCalls + 1
  /\ userTurn' = (mq' # <<>>)
  /\ UNCHANGED <<errCalls, errReason, wvars, xvars>>

\* user code schedules a microtask of its own
Defer ==
  /\ UserCtx
  /\ \A i \in 1..Len(mq) : mq[i].t # "user"
  /\ mq' = Enqueued(mq, <<UserTask>>)
  /\ userTurn' = (mq' # <<>>)
  /\ UNCHANGED <<rvars, wvars, xvars>>

\* a microtask of the user's runs
RunUser ==
  /\ mq # <<>> /\ Head(mq).t = "user"
  /\ mq' = Tail(mq)
  /\ userTurn' = (mq' # <<>>)
  /\ UNCHANGED <<rvars, wvars, xvars>>

\* ------------------------------------------- Reader: the library's reactions
\* read(): the reaction to the settled pull
RunReadThen ==
  /\ mq # <<>> /\ Head(mq).t = "readThen"
  /\ LET t == Head(mq)
         p == IF t.ok THEN read_fulfilled(rd, t.val) ELSE read_rejected(rd, t.val)
     IN /\ rd' = p.rd
        /\ reads' = [reads EXCEPT ![t.id].st = p.st, ![t.id].v = p.v]
  /\ mq' = Enqueued(Tail(mq), <<UserTask>>)
  /\ userTurn' = FALSE
  /\ UNCHANGED <<enqs, ctlCloses, accepted, errCalls, errReason, rdCloses,
                 cancelCalls, wvars, xvars>>

\* controller.close(): the reaction to the accepted EOF
RunCloseThen ==
  /\ mq # <<>> /\ Head(mq).t = "closeThen"
  /\ LET t == Head(mq)
         p == Controller_close_then(rd)
     IN /\ Settle(p.rd, reads, enqs, [ctlCloses EXCEPT ![t.id] = "ok"], p.ev)
        /\ mq' = Enqueued(Tail(mq), TasksOf(p.ev) \o <<UserTask>>)
  /\ userTurn' = FALSE
  /\ UNCHANGED <<errCalls, errReason, rdCloses, cancelCalls, wvars, xvars>>

\* ================================================================ Writer
WriterClosed == -5      \* the rejection "Writer is closed"
WriterAborted == -6     \* new Error("Writer is aborted")
StartReason == -7       \* what a failing start hook of the sink rejects with
AbortReasons == {-4, Undefined}  \* reasons given to abort() and controller.error()
HookReason(id) == -10 - id       \* what the write hook rejects the id-th write with

MaxWrites == 3     \* Writer.write() calls
MaxOther == 2      \* Writer.close(), Writer.abort() and controller.error() calls

\* new Writer(sink): the start hook has been invoked, its promise is pending
NewWriter ==
  [isClosed |-> FALSE, isError |-> FALSE, error |-> Undefined,
   isStarted |-> FALSE, waitingWrites |-> <<>>, writePending |-> FALSE]

InitWriter ==
  /\ wr = NewWriter
  /\ wstart = "pending"
  /\ startWaiters = <<>>
  /\ writes = <<>>
  /\ sinkLog = <<>>
  /\ wOther = 0
  /\ closeHookCalls = 0
  /\ abortHookCalls = 0

\* ------------------------------------------- Writer: the code's functions
\* Writer.writeImpl(chunk), up to the call of the sink's write hook: the
\* new Writer and what becomes of the write ("hook": the hook is invoked)
writeImpl(w) ==
  IF w.isClosed THEN [wr |-> w, st |-> "rej", v |-> WriterClosed]
  ELSE IF w.isError
  THEN [wr |-> w, st |-> "rej",
        v |-> IF w.error = Undefined THEN WriterAborted ELSE w.error]
  ELSE [wr |-> [w EXCEPT !.writePending = TRUE], st |-> "hook", v |-> Undefined]

\* mutant: a rejection of the write hook leaves the waiting writes waiting
writeImpl_then_keeps_waiting(w, ok) ==
  IF ok /\ w.waitingWrites # <<>>
  THEN [wr |-> [w EXCEPT !.writePending = FALSE, !.waitingWrites = Tail(@)],
        released |-> <<Head(w.waitingWrites)>>]
  ELSE [wr |-> [w EXCEPT !.writePending = FALSE], released |-> <<>>]

\* mutant: the reactions to the write hook leave writePending set
writeImpl_then_stays_pending(w, ok) ==
  IF w.waitingWrites # <<>>
  THEN [wr |-> [w EXCEPT !.waitingWrites = Tail(@)],
        released |-> <<Head(w.waitingWrites)>>]
  ELSE [wr |-> w, released |-> <<>>]

\* Writer.writeImpl(chunk): the reactions to the settled write hook; both
\* clear writePending and release the first waiting write
writeImpl_then(w, ok) ==
  IF w.waitingWrites # <<>>
  THEN [wr |-> [w EXCEPT !.writePending = FALSE, !.waitingWrites = Tail(@)],
        released |-> <<Head(w.waitingWrites)>>]
  ELSE [wr |-> [w EXCEPT !.writePending = FALSE], released |-> <<>>]

\* mutant: write() does not wait for the start hook
write_ignores_start(w, id) ==
  IF w.writePending
  THEN [wr |-> [w EXCEPT !.waitingWrites = Append(@, id)],
        st |-> "queued", v |-> Undefined]
  ELSE writeImpl(w)

\* Writer.write(chunk), id being the call and the chunk: the new Writer and
\* what becomes of the write ("start": it waits for startPromise, "queued":
\* it waits in waitingWrites)
write(w, id) ==
  IF ~w.isStarted THEN [wr |-> w, st |-> "start", v |-> Undefined]
  ELSE IF w.writePending
  THEN [wr |-> [w EXCEPT !.waitingWrites = Append(@, id)],
        st |-> "queued", v |-> Undefined]
  ELSE writeImpl(w)

\* Writer.close(), from the assignment of isClosed on
Writer_close(w) == [w EXCEPT !.isClosed = TRUE]

\* Writer.abort(reason) and the sink's controller.error(reason)
Writer_abort(w, reason) == [w EXCEPT !.isError = TRUE, !.error = reason]

\* ----------------------------------------------------- Writer: user calls
WFinal(st) == st \in {"ok", "rej"}

\* the write() call id has become `p`: its state, what the sink saw
Written(id, p, ws) ==
  /\ wr' = p.wr
  /\ writes' = [ws EXCEPT ![id].st = p.st, ![id].v = p.v,
                          ![id].queued = @ \/ p.st = "queued"]
  /\ sinkLog' = IF p.st = "hook" THEN Append(sinkLog, id) ELSE sinkLog
  /\ startWaiters' = IF p.st = "start" /\ wstart # "failed"
                     THEN Append(startWaiters, [k |-> "write", id |-> id])
                     ELSE startWaiters

\* the reactions a write() call that has become `p` queues: the user's
\* reaction to a rejected write, and, when startPromise has been rejected,
\* the rejection of the write waiting for it
TasksOfWrite(id, p) ==
  IF p.st = "rej" THEN <<UserTask>>
  ELSE IF p.st = "start" /\ wstart = "failed"
  THEN <<Task("wStartCbWrite", id, FALSE, StartReason)>>
  ELSE <<>>

\* writer.write(chunk)
Write ==
  /\ UserCtx
  /\ Len(writes) < MaxWrites
  /\ LET id == Len(writes) + 1
         p == write(wr, id)
         new == [st |-> "new", v |-> Undefined, h |-> "none", queued |-> FALSE,
                 pre |-> wstart \in {"pending", "settled"},
                 err |-> wr.isError, reason |-> wr.error]
     IN /\ Written(id, p, Append(writes, new))
        /\ mq' = Enqueued(mq, TasksOfWrite(id, p))
  /\ userTurn' = (mq' # <<>>)
  /\ UNCHANGED <<wstart, wOther, closeHookCalls, abortHookCalls, rvars, xvars>>

\* the promise of the sink's start hook settles
SettleStart ==
  /\ UserCtx
  /\ wstart = "pending"
  /\ \E ok \in BOOLEAN :
       mq' = Enqueued(mq, <<Task("wStartThen", 0, ok, StartReason)>>)
  /\ wstart' = "settled"
  /\ userTurn' = (mq' # <<>>)
  /\ UNCHANGED <<wr, startWaiters, writes, sinkLog, wOther, closeHookCalls,
                 abortHookCalls, rvars, xvars>>

\* the promise of the sink's write hook for the write id settles
SettleWrite ==
  /\ UserCtx
  /\ \E id \in 1..Len(writes) :
       /\ writes[id].st = "hook"
       /\ \E ok \in BOOLEAN :
            /\ writes' = [writes EXCEPT ![id].st = "hookDone",
                                        ![id].h = IF ok THEN "ok" ELSE "rej"]
            /\ mq' = Enqueued(mq, <<Task("writeThen", id, ok, HookReason(id))>>)
  /\ userTurn' = (mq' # <<>>)
  /\ UNCHANGED <<wr, wstart, startWaiters, sinkLog, wOther, closeHookCalls,
                 abortHookCalls, rvars, xvars>>

\* writer.close()
WClose ==
  /\ UserCtx
  /\ wOther < MaxOther
  /\ wOther' = wOther + 1
  /\ IF wr.isStarted
     THEN /\ wr' = Writer_close(wr)
          /\ closeHookCalls' = closeHookCalls + 1
          /\ UNCHANGED startWaiters
     ELSE /\ startWaiters' = IF wstart = "failed" THEN startWaiters
                             ELSE Append(startWaiters, [k |-> "close", id |-> 0])
          /\ UNCHANGED <<wr, closeHookCalls>>
  /\ UNCHANGED mq
  /\ userTurn' = (mq' # <<>>)
  /\ UNCHANGED <<wstart, writes, sinkLog, abortHookCalls, rvars, xvars>>

\* writer.abort(reason)
WAbort ==
  /\ UserCtx
  /\ wOther < MaxOther
  /\ wOther' = wOther + 1
  /\ \E reason \in AbortReasons : wr' = Writer_abort(wr, reason)
  /\ abortHookCalls' = abortHookCalls + 1
  /\ UNCHANGED mq
  /\ userTurn' = (mq' # <<>>)
  /\ UNCHANGED <<wstart, startWaiters, writes, sinkLog, closeHookCalls, rvars, xvars>>

\* the sink calls controller.error(reason)
SinkError ==
  /\ UserCtx
  /\ wOther < MaxOther
  /\ wOther' = wOther + 1
  /\ \E reason \in AbortReasons : wr' = Writer_abort(wr, reason)
  /\ UNCHANGED mq
  /\ userTurn' = (mq' # <<>>)
  /\ UNCHANGED <<wstart, startWaiters, writes, sinkLog, closeHookCalls,
                 abortHookCalls, rvars, xvars>>

\* ------------------------------------------- Writer: the library's reactions
RECURSIVE StartReactions(_, _)
StartReactions(ws, ok) ==
  IF ws = <<>> THEN <<>>
  ELSE <<Task(IF Head(ws).k = "write" THEN "wStartCbWrite" ELSE "wStartCbClose",
              Head(ws).id, ok, StartReason)>>
       \o StartReactions(Tail(ws), ok)

\* the reaction of the constructor to the start hook: isStarted = true; it
\* settles startPromise, whose reactions are queued in registration order
RunWStartThen ==
  /\ mq # <<>> /\ Head(mq).t = "wStartThen"
  /\ wr' = [wr EXCEPT !.isStarted = Head(mq).ok]
  /\ wstart' = IF Head(mq).ok THEN "started" ELSE "failed"
  /\ mq' = Enqueued(Tail(mq), StartReactions(startWaiters, Head(mq).ok))
  /\ startWaiters' = <<>>
  /\ userTurn' = FALSE
  /\ UNCHANGED <<writes, sinkLog, wOther, closeHookCalls, abortHookCalls, rvars, xvars>>

\* write(): the reaction to startPromise, this.write(chunk)
RunWStartCbWrite ==
  /\ mq # <<>> /\ Head(mq).t = "wStartCbWrite"
  /\ LET t == Head(mq)
         p == IF t.ok THEN write(wr, t.id)
              ELSE [wr |-> wr, st |-> "rej", v |-> t.val]
     IN /\ Written(t.id, p, writes)
        /\ mq' = Enqueued(Tail(mq), TasksOfWrite(t.id, p))
        /\ userTurn' = (p.st = "hook")
  /\ UNCHANGED <<wstart, wOther, closeHookCalls, abortHookCalls, rvars, xvars>>

\* close(): the continuation after 'await this.startPromise'
RunWStartCbClose ==
  /\ mq # <<>> /\ Head(mq).t = "wStartCbClose"
  /\ IF Head(mq).ok
     THEN /\ wr' = Writer_close(wr)
          /\ closeHookCalls' = closeHookCalls + 1
     ELSE UNCHANGED <<wr, closeHookCalls>>
  /\ mq' = Tail(mq)
  /\ userTurn' = Head(mq).ok
  /\ UNCHANGED <<wstart, startWaiters, writes, sinkLog, wOther, abortHookCalls,
                 rvars, xvars>>

\* writeImpl(): the reaction to the settled write hook
RunWriteThen ==
  /\ mq # <<>> /\ Head(mq).t = "writeThen"
  /\ LET t == Head(mq)
         p == writeImpl_then(wr, t.ok)
     IN /\ wr' = p.wr
        /\ writes' = [i \in 1..Len(writes) |->
                        IF i = t.id
                        THEN [writes[i] EXCEPT !.st = IF t.ok THEN "ok" ELSE "rej",
                                               !.v = IF t.ok THEN Undefined ELSE t.val]
                        ELSE IF p.released = <<i>>
                        THEN [writes[i] EXCEPT !.st = "released"]
                        ELSE writes[i]]
        /\ mq' = Enqueued(Tail(mq),
                          [i \in 1..Len(p.released) |->
                             Task("waiterCb", p.released[i], TRUE, Undefined)]
                          \o <<UserTask>>)
  /\ userTurn' = FALSE
  /\ UNCHANGED <<wstart, startWaiters, sinkLog, wOther, closeHookCalls,
                 abortHookCalls, rvars, xvars>>

\* write(): the reaction of a released waiting write, writeImpl(chunk)
RunWaiterCb ==
  /\ mq # <<>> /\ Head(mq).t = "waiterCb"
  /\ LET t == Head(mq)
         p == writeImpl(wr)
     IN /\ Written(t.id, p, writes)
        /\ mq' = Enqueued(Tail(mq), TasksOfWrite(t.id, p))
        /\ userTurn' = (p.st = "hook")
  /\ UNCHANGED <<wstart, wOther, closeHookCalls, abortHookCalls, rvars, xvars>>

\* ============================================== Reader: the pull loop
\* Reader._pullIfNeeded(): whether the pull hook is invoked
pullIfNeeded(r) == r.pullAlg

\* Reader._pullIfNeeded(): the reaction to the promise of the pull hook;
\* a rejected promise has no reaction and the loop ends
pullAlg_then(ok) ==
  IF ok THEN <<Task("pullIfNeeded", 0, TRUE, Undefined)>> ELSE <<>>

\* the promise of the source's start hook settles; the constructor's
\* reaction to it starts the pull loop
SettleRStart ==
  /\ UserCtx
  /\ rstart = "pending"
  /\ \E ok \in BOOLEAN :
       /\ rstart' = IF ok THEN "resolved" ELSE "rejected"
       /\ mq' = Enqueued(mq, pullAlg_then(ok))
  /\ userTurn' = (mq' # <<>>)
  /\ UNCHANGED <<rvars, wvars, pulls, iter, pvars>>

\* _pullIfNeeded() runs: if the pull hook is still set it is invoked; the
\* hook awaits controller.enqueue(next item) or, having no more items,
\* controller.close(); a hook out of calls never settles
RunPullIfNeeded ==
  /\ mq # <<>> /\ Head(mq).t = "pullIfNeeded"
  /\ IF ~pullIfNeeded(rd)
     THEN /\ mq' = Tail(mq)
          /\ userTurn' = FALSE
          /\ UNCHANGED <<rd, reads, enqs, ctlCloses, accepted, pulls>>
     ELSE IF ProducerCalls >= MaxProducer
     THEN /\ mq' = Tail(mq)
          /\ userTurn' = TRUE
          /\ pulls' = Append(pulls, [kind |-> "idle", id |-> 0, st |-> "run"])
          /\ UNCHANGED <<rd, reads, enqs, ctlCloses, accepted>>
     ELSE \E kind \in {"enq", "close"} :
            LET id == IF kind = "enq" THEN Len(enqs) + 1 ELSE Len(ctlCloses) + 1
                p == IF kind = "enq" THEN enqueue(rd, id, id)
                     ELSE Controller_close(rd, id)
                new == [st |-> "pend", term |-> rd.closed \/ rd.isError,
                        late |-> ctlCloses # <<>>]
            IN /\ Settle(p.rd, reads,
                         IF kind = "enq" THEN Append(enqs, new) ELSE enqs,
                         IF kind = "enq" THEN ctlCloses
                         ELSE Append(ctlCloses, IF p.noop THEN "noop" ELSE "pend"),
                         p.ev)
               /\ mq' = Enqueued(Tail(mq), TasksOf(p.ev))
               /\ pulls' = Append(pulls, [kind |-> kind, id |-> id, st |-> "run"])
               /\ userTurn' = TRUE
  /\ UNCHANGED <<errCalls, errReason, rdCloses, cancelCalls, wvars, rstart, iter,
                 pvars>>

\* what became of the call a running pull hook awaits
Awaited(pl) ==
  IF pl.kind = "enq" THEN enqs[pl.id].st
  ELSE IF pl.kind = "close"
  THEN (IF ctlCloses[pl.id] = "noop" THEN "ok" ELSE ctlCloses[pl.id])
  ELSE "pend"

\* the promise of the pull hook settles, as the call it awaited did
SettlePull ==
  /\ UserCtx
  /\ \E n \in 1..Len(pulls) :
       /\ pulls[n].st = "run"
       /\ Awaited(pulls[n]) \in {"ok", "rej"}
       /\ pulls' = [pulls EXCEPT ![n].st = Awaited(pulls[n])]
       /\ mq' = Enqueued(mq, pullAlg_then(Awaited(pulls[n]) = "ok"))
  /\ userTurn' = (mq' # <<>>)
  /\ UNCHANGED <<rvars, wvars, rstart, iter, pvars>>

\* the pull hook throws: after the call it awaited resolved, or having made
\* no call; its promise rejects, which _pullIfNeeded() does not react to
FailPull ==
  /\ UserCtx
  /\ \E n \in 1..Len(pulls) :
       /\ pulls[n].st = "run"
       /\ pulls[n].kind = "idle" \/ Awaited(pulls[n]) = "ok"
       /\ pulls' = [pulls EXCEPT ![n].st = "rej"]
       /\ mq' = Enqueued(mq, pullAlg_then(FALSE))
  /\ userTurn' = (mq' # <<>>)
  /\ UNCHANGED <<rvars, wvars, rstart, iter, pvars>>

\* ======================================= Reader: the asynchronous iterator
\* mutant: the iterator's return() closes the Reader
Iterator_return_closes(r) == [rd |-> Reader_close(r).rd, cancel |-> 1]

\* the iterator's return(), reached by 'break': the Reader it leaves and
\* the number of calls of the cancel hook it makes
Iterator_return(r) == [rd |-> r, cancel |-> 0]

\* the loop calls the iterator's next(), which is read(); it does so once
\* the previous next() has given it an item
IterNext ==
  /\ iter \in {"none", "running"}
  /\ \A i \in 1..Len(reads) : Final(reads[i].st)
  /\ iter = "running" => reads[Len(reads)].st = "val"
  /\ ReadCall
  /\ iter' = "running"
  /\ UNCHANGED <<rstart, pulls, pvars>>

\* the body of the loop breaks: the loop calls the iterator's return()
IterBreak ==
  /\ UserCtx
  /\ iter = "running"
  /\ reads[Len(reads)].st = "val"
  /\ LET p == Iterator_return(rd)
     IN /\ rd' = p.rd
        /\ cancelCalls' = cancelCalls + p.cancel
  /\ iter' = "broken"
  /\ userTurn' = (mq # <<>>)
  /\ UNCHANGED <<reads, enqs, ctlCloses, accepted, errCalls, errReason, rdCloses,
                 wvars, mq, rstart, pulls, pvars>>

\* ================================================================= pipes
\* A chain source.pipeThrough(t1)...pipeThrough(tn) ended by pipeTo(writer)
\* or read by the user.  Reader 0 is the source, Reader j the Reader of
\* Transformer j; Writer j is the Writer of Transformer j and Writer n+1 the
\* destination of pipeTo.  Pump j is the loop of pipeThrough (j <= n) or
\* pipeTo (j = n+1) that reads Reader j-1 and writes to Writer j.
MaxT == 2          \* Transformers in the chain
MaxPipeProducer == 4   \* calls on the controller of the source of a chain
Wrap == 10         \* a transform maps the item x to x + Wrap
FlushItem == 100   \* the item a flush hook enqueues
AbortHookReason == -9   \* what a failing abort hook of the sink rejects with

\* the number of pumps, which is the number of Writers
NP == IF tailKind = "writer" THEN nT + 1 ELSE nT

PTask(t, s, id, ok, val) == [t |-> t, s |-> s, id |-> id, ok |-> ok, val |-> val]

\* new Transformer(): its Reader is new Reader({}), without a pull hook
TransformerReader(cap) == [NewReader(cap) EXCEPT !.pullAlg = FALSE]

\* no chain has been built
NoPipe ==
  /\ nT = 0 /\ tailKind = "none"
  /\ pR = <<>> /\ pW = <<>> /\ pump = <<>> /\ pacc = <<>>
  /\ psink = <<>> /\ ureads = <<>> /\ pcalls = 0
  /\ flushCalls = <<>> /\ pipeCloseCalls = 0 /\ aborted = <<>>

\* the Readers, Transformers and the destination Writer have been
\* constructed: each Writer's reaction to its start hook (none given, so
\* NOOP) is waiting in the microtask queue
InitPipe ==
  /\ nT \in 0..MaxT
  /\ tailKind \in {"writer", "user"}
  /\ tailKind = "user" => nT >= 1
  /\ \E c0 \in 1..MaxCap, c1 \in 1..MaxCap :
       pR = [j \in 0..nT |-> IF j = 0 THEN NewReader(c0) ELSE TransformerReader(c1)]
  /\ pW = [j \in 1..NP |-> NewWriter]
  /\ pump = [j \in 1..NP |-> [st |-> "off", v |-> Undefined]]
  /\ pacc = [j \in 0..nT |-> <<>>]
  /\ psink = <<>>
  /\ ureads = <<>>
  /\ pcalls = 0
  /\ flushCalls = [j \in 1..nT |-> 0]
  /\ pipeCloseCalls = 0
  /\ aborted = [j \in 1..NP |-> <<>>]
  /\ mq = [j \in 1..NP |-> PTask("pStart", j, 0, TRUE, Undefined)]
  /\ userTurn = TRUE

RECURSIVE PTasksOf(_, _)
\* the microtasks queued by the promises that an operation on Reader j
\* settled: read()'s reaction to its pull; controller.close()'s reaction to
\* the push of EOF; the reaction of the producer that awaits enqueue(),
\* which is the user for the source, writeImpl() for the enqueue of a
\* transform hook (push 1) and the close hook for that of a flush hook
\* (push 2)
PTasksOf(j, ev) ==
  IF ev = <<>> THEN <<>>
  ELSE (IF Head(ev).k = "pull"
        THEN <<PTask("pReadThen", j, Head(ev).id, Head(ev).ok, Head(ev).val)>>
        ELSE IF Head(ev).val = EOF
        THEN (IF Head(ev).ok THEN <<PTask("pCloseThen", j, 0, TRUE, EOF)>>
              ELSE <<>>)
        ELSE IF j = 0 THEN <<UserTask>>
        ELSE IF Head(ev).id = 2
        THEN <<PTask("pFlushThen", j, 0, Head(ev).ok, Head(ev).val)>>
        ELSE <<PTask("pWriteThen", j, 0, Head(ev).ok, Head(ev).val)>>)
       \o PTasksOf(j, Tail(ev))

\* the Reader and the settled promises an operation on a Reader returns
Plain(p) == [rd |-> p.rd, ev |-> p.ev]

\* Reader j has become p.rd by an operation that settled the promises p.ev
OnReader(j, p) ==
  /\ pR' = [pR EXCEPT ![j] = p.rd]
  /\ pacc' = [pacc EXCEPT ![j] = AcceptedAfter(@, p.ev)]

\* ---------------------------------------------------- pipes: user calls
\* source.pipeThrough(t1), ...pipeThrough(tj), ...pipeTo(writer): the call
\* that starts pump j reads Reader j-1
PipeStart ==
  /\ UserCtx
  /\ \E j \in 1..NP :
       /\ pump[j].st = "off"
       /\ \A i \in 1..(j - 1) : pump[i].st # "off"
       /\ LET p == read(pR[j - 1], 0)
          IN /\ OnReader(j - 1, p)
             /\ mq' = Enqueued(mq, PTasksOf(j - 1, p.ev))
       /\ pump' = [pump EXCEPT ![j].st = "read"]
  /\ userTurn' = (mq' # <<>>)
  /\ UNCHANGED <<nT, tailKind, pW, psink, ureads, pcalls, flushCalls,
                 pipeCloseCalls, aborted, rvars, wvars, rstart, pulls, iter>>

\* the source's producer calls controller.enqueue(), close() or error()
PipeProduce ==
  /\ UserCtx
  /\ tailKind # "none"
  /\ pcalls < MaxPipeProducer
  /\ \E p \in {Plain(enqueue(pR[0], 0, pcalls + 1)),
               Plain(Controller_close(pR[0], 0))}
            \cup {Plain(error(pR[0], reason)) : reason \in Reasons} :
       /\ OnReader(0, p)
       /\ mq' = Enqueued(mq, PTasksOf(0, p.ev))
  /\ pcalls' = pcalls + 1
  /\ userTurn' = (mq' # <<>>)
  /\ UNCHANGED <<nT, tailKind, pW, pump, psink, ureads, flushCalls,
                 pipeCloseCalls, aborted, rvars, wvars, rstart, pulls, iter>>

\* the user reads the Reader returned by the last pipeThrough()
PipeRead ==
  /\ UserCtx
  /\ tailKind = "user"
  /\ Len(ureads) < MaxConsumer
  /\ LET rid == Len(ureads) + 1
         p == read(pR[nT], rid)
     IN /\ OnReader(nT, p)
        /\ mq' = Enqueued(mq, PTasksOf(nT, p.ev))
        /\ ureads' = Append(ureads, [st |-> "wait", v |-> Undefined,
                                     err |-> pR[nT].isError, pend |-> FALSE])
  /\ userTurn' = (mq' # <<>>)
  /\ UNCHANGED <<nT, tailKind, pW, pump, psink, pcalls, flushCalls,
                 pipeCloseCalls, aborted, rvars, wvars, rstart, pulls, iter>>

\* the promise of a hook of the destination's sink settles: the write hook
\* resolves or rejects, the close hook resolves, the abort hook resolves or
\* rejects
PipeSettleSink ==
  /\ UserCtx
  /\ tailKind = "writer"
  /\ \/ \E n \in 1..Len(psink), ok \in BOOLEAN :
          /\ psink[n].st = "hook"
          /\ psink' = [psink EXCEPT ![n].st = IF ok THEN "ok" ELSE "rej"]
          /\ mq' = Enqueued(mq, <<PTask("pWriteThen", NP, n, ok, HookReason(n))>>)
          /\ UNCHANGED pump
     \/ /\ pump[NP].st = "close"
        /\ pump' = [pump EXCEPT ![NP].st = "closed"]
        /\ mq' = Enqueued(mq, <<PTask("pPumpEnd", NP, 0, TRUE, Undefined)>>)
        /\ UNCHANGED psink
     \/ \E ok \in BOOLEAN :
          /\ pump[NP].st = "abort"
          /\ pump' = [pump EXCEPT ![NP].st = "aborted"]
          /\ mq' = Enqueued(mq, <<PTask("pPumpEnd", NP, 0, FALSE,
                                        IF ok THEN pump[NP].v ELSE AbortHookReason)>>)
          /\ UNCHANGED psink
  /\ userTurn' = (mq' # <<>>)
  /\ UNCHANGED <<nT, tailKind, pR, pW, pacc, ureads, pcalls, flushCalls,
                 pipeCloseCalls, aborted, rvars, wvars, rstart, pulls, iter>>

\* ------------------------------------------ pipes: the library's reactions
\* the constructor's reaction to the (NOOP) start hook of Writer s
PipeRunStart ==
  /\ mq # <<>> /\ Head(mq).t = "pStart"
  /\ pW' = [pW EXCEPT ![Head(mq).s].isStarted = TRUE]
  /\ mq' = Tail(mq)
  /\ userTurn' = FALSE
  /\ UNCHANGED <<nT, tailKind, pR, pump, pacc, psink, ureads, pcalls, flushCalls,
                 pipeCloseCalls, aborted, rvars, wvars, rstart, pulls, iter>>

\* read() of Reader s: the reaction to the settled pull; its outcome goes to
\* the pump (read 0) or to the user's read()
PipeRunReadThen ==
  /\ mq # <<>> /\ Head(mq).t = "pReadThen"
  /\ LET t == Head(mq)
         p == IF t.ok THEN read_fulfilled(pR[t.s], t.val)
              ELSE read_rejected(pR[t.s], t.val)
     IN /\ pR' = [pR EXCEPT ![t.s] = p.rd]
        /\ IF t.id = 0
           THEN /\ mq' = Append(Tail(mq),
                                PTask("pPumpRead", t.s + 1, 0, p.st # "rej",
                                      IF p.st = "done" THEN EOF ELSE p.v))
                /\ UNCHANGED ureads
           ELSE /\ mq' = Tail(mq)
                /\ ureads' = [ureads EXCEPT ![t.id].st = p.st, ![t.id].v = p.v]
  /\ userTurn' = FALSE
  /\ UNCHANGED <<nT, tailKind, pW, pump, pacc, psink, pcalls, flushCalls,
                 pipeCloseCalls, aborted, rvars, wvars, rstart, pulls, iter>>

\* destination.abort(reason) called by pump j: Writer.abort() and the abort
\* hook, which for a Transformer is controller.error(reason) on its Reader
\* and for the destination of pipeTo is the sink's
PumpAbort(j, reason) ==
  /\ pW' = [pW EXCEPT ![j] = Writer_abort(@, reason)]
  /\ aborted' = [aborted EXCEPT ![j] = Append(@, reason)]
  /\ IF j <= nT
     THEN LET p == error(pR[j], reason)
          IN /\ OnReader(j, p)
             /\ mq' = Tail(mq) \o PTasksOf(j, p.ev)
             /\ pump' = [pump EXCEPT ![j] = [st |-> "aborted", v |-> reason]]
     ELSE /\ mq' = Tail(mq)
          /\ pump' = [pump EXCEPT ![j] = [st |-> "abort", v |-> reason]]
          /\ UNCHANGED <<pR, pacc>>
  /\ ureads' = IF j = nT /\ ~pR[j].closed /\ ~pR[j].isError
               THEN [k \in 1..Len(ureads) |->
                       [ureads[k] EXCEPT !.pend = ~Final(ureads[k].st)]]
               ELSE ureads
  /\ UNCHANGED <<psink, flushCalls, pipeCloseCalls>>

\* destination.close() called by pump j: Writer.close() and the close hook,
\* which for a Transformer invokes the flush hook (that enqueues an item or
\* nothing) and for the destination of pipeTo is the sink's
PumpClose(j) ==
  /\ pW' = [pW EXCEPT ![j] = Writer_close(@)]
  /\ IF j <= nT
     THEN /\ flushCalls' = [flushCalls EXCEPT ![j] = @ + 1]
          /\ \E fl \in BOOLEAN :
               LET p == IF fl THEN enqueue(pR[j], 2, FlushItem)
                        ELSE [rd |-> pR[j], ev |-> <<>>]
               IN /\ OnReader(j, p)
                  /\ mq' = Tail(mq) \o PTasksOf(j, p.ev)
                       \o (IF fl THEN <<>>
                           ELSE <<PTask("pFlushThen", j, 0, TRUE, Undefined)>>)
          /\ pump' = [pump EXCEPT ![j] = [st |-> "flush", v |-> Undefined]]
          /\ UNCHANGED pipeCloseCalls
     ELSE /\ pipeCloseCalls' = pipeCloseCalls + 1
          /\ mq' = Tail(mq)
          /\ pump' = [pump EXCEPT ![j] = [st |-> "close", v |-> Undefined]]
          /\ UNCHANGED <<pR, pacc, flushCalls>>
  /\ UNCHANGED <<psink, aborted, ureads>>

\* destination.write(chunk) called by pump j: Writer.write() and, if it
\* gets there, the write hook, which for a Transformer is the transform
\* hook, enqueueing the mapped chunk, and for the destination of pipeTo is
\* the sink's
PumpWrite(j, chunk) ==
  LET w == write(pW[j], 0)
  IN /\ pW' = [pW EXCEPT ![j] = w.wr]
     /\ pump' = [pump EXCEPT ![j] = [st |-> "write", v |-> chunk]]
     /\ IF w.st = "hook" /\ j <= nT
        THEN LET p == enqueue(pR[j], 1, chunk + Wrap)
             IN /\ OnReader(j, p)
                /\ mq' = Tail(mq) \o PTasksOf(j, p.ev)
                /\ UNCHANGED psink
        ELSE /\ psink' = IF w.st = "hook"
                         THEN Append(psink, [v |-> chunk, st |-> "hook"])
                         ELSE psink
             /\ mq' = Tail(mq)
                  \o (IF w.st = "rej"
                      THEN <<PTask("pPumpWrote", j, 0, FALSE, w.v)>> ELSE <<>>)
             /\ UNCHANGED <<pR, pacc>>
     /\ UNCHANGED <<flushCalls, pipeCloseCalls, aborted, ureads>>

\* mutant: the pump closes the destination on the first item
pipeOneChunk_closes_early(ok, val) ==
  IF ~ok THEN "abort" ELSE "close"

\* mutant: the pump closes the destination when its read() rejects
pipeOneChunk_closes_on_error(ok, val) ==
  IF ~ok \/ val = EOF THEN "close" ELSE "write"

\* pipeTo() and pipeThrough(): what the pump does with the outcome of its
\* read(), a rejection, {done:true} (EOF here) or an item
pipeOneChunk(ok, val) ==
  IF ~ok THEN "abort" ELSE IF val = EOF THEN "close" ELSE "write"

\* pump s: the reaction to its read(): close() on done, write() on an item,
\* abort() on a rejection
PipeRunPumpRead ==
  /\ mq # <<>> /\ Head(mq).t = "pPumpRead"
  /\ LET t == Head(mq)
         do == pipeOneChunk(t.ok, t.val)
     IN IF do = "abort" THEN PumpAbort(t.s, t.val)
        ELSE IF do = "close" THEN PumpClose(t.s)
        ELSE PumpWrite(t.s, t.val)
  /\ userTurn' = TRUE
  /\ UNCHANGED <<nT, tailKind, pcalls, rvars, wvars, rstart, pulls, iter>>

\* writeImpl() of Writer s: the reaction to the settled write hook
PipeRunWriteThen ==
  /\ mq # <<>> /\ Head(mq).t = "pWriteThen"
  /\ LET t == Head(mq)
     IN /\ pW' = [pW EXCEPT ![t.s] = writeImpl_then(@, t.ok).wr]
        /\ mq' = Append(Tail(mq), PTask("pPumpWrote", t.s, 0, t.ok, t.val))
  /\ userTurn' = FALSE
  /\ UNCHANGED <<nT, tailKind, pR, pump, pacc, psink, ureads, pcalls, flushCalls,
                 pipeCloseCalls, aborted, rvars, wvars, rstart, pulls, iter>>

\* pump s: the reaction to its write(): the next read(); a rejected write
\* has no reaction in pipeThrough and is caught, with abort(), in pipeTo
PipeRunPumpWrote ==
  /\ mq # <<>> /\ Head(mq).t = "pPumpWrote"
  /\ LET t == Head(mq)
     IN IF t.ok
        THEN LET p == read(pR[t.s - 1], 0)
             IN /\ OnReader(t.s - 1, p)
                /\ mq' = Tail(mq) \o PTasksOf(t.s - 1, p.ev)
                /\ pump' = [pump EXCEPT ![t.s] = [st |-> "read", v |-> Undefined]]
                /\ userTurn' = FALSE
                /\ UNCHANGED <<pW, psink, flushCalls, pipeCloseCalls, aborted,
                               ureads>>
        ELSE IF t.s <= nT
        THEN /\ mq' = Tail(mq)
             /\ pump' = [pump EXCEPT ![t.s] = [st |-> "stuck", v |-> t.val]]
             /\ userTurn' = FALSE
             /\ UNCHANGED <<pR, pW, pacc, psink, flushCalls, pipeCloseCalls,
                            aborted, ureads>>
        ELSE /\ PumpAbort(t.s, t.val)
             /\ userTurn' = TRUE
  /\ UNCHANGED <<nT, tailKind, pcalls, rvars, wvars, rstart, pulls, iter>>

\* the close hook of Transformer s: after the flush hook, controller.close()
PipeRunFlushThen ==
  /\ mq # <<>> /\ Head(mq).t = "pFlushThen"
  /\ LET t == Head(mq)
     IN IF t.ok
        THEN LET p == Plain(Controller_close(pR[t.s], 0))
             IN /\ OnReader(t.s, p)
                /\ mq' = Tail(mq) \o PTasksOf(t.s, p.ev)
                /\ pump' = [pump EXCEPT ![t.s].st = "eof"]
        ELSE /\ mq' = Tail(mq)
             /\ pump' = [pump EXCEPT ![t.s].st = "stuck"]
             /\ UNCHANGED <<pR, pacc>>
  /\ userTurn' = FALSE
  /\ UNCHANGED <<nT, tailKind, pW, psink, ureads, pcalls, flushCalls,
                 pipeCloseCalls, aborted, rvars, wvars, rstart, pulls, iter>>

\* controller.close() of Reader s: the reaction to the accepted EOF; for a
\* Transformer it ends the close hook and so the close() of its Writer
PipeRunCloseThen ==
  /\ mq # <<>> /\ Head(mq).t = "pCloseThen"
  /\ LET t == Head(mq)
         p == Controller_close_then(pR[t.s])
     IN /\ OnReader(t.s, p)
        /\ mq' = Tail(mq) \o PTasksOf(t.s, p.ev)
        /\ pump' = IF t.s >= 1 THEN [pump EXCEPT ![t.s].st = "done"] ELSE pump
  /\ userTurn' = FALSE
  /\ UNCHANGED <<nT, tailKind, pW, psink, ureads, pcalls, flushCalls,
                 pipeCloseCalls, aborted, rvars, wvars, rstart, pulls, iter>>

\* pipeTo(): the continuation after 'await destination.close()', which
\* returns, or after 'await destination.abort(e)', which throws e or what
\* the abort hook rejected with
PipeRunPumpEnd ==
  /\ mq # <<>> /\ Head(mq).t = "pPumpEnd"
  /\ LET t == Head(mq)
     IN pump' = [pump EXCEPT ![t.s] = IF t.ok THEN [st |-> "done", v |-> Undefined]
                                      ELSE [st |-> "fail", v |-> t.val]]
  /\ mq' = Tail(mq)
  /\ userTurn' = FALSE
  /\ UNCHANGED <<nT, tailKind, pR, pW, pacc, psink, ureads, pcalls, flushCalls,
                 pipeCloseCalls, aborted, rvars, wvars, rstart, pulls, iter>>

\* the user closes the Reader returned by pipeThrough(): Reader.close(),
\* whose cancel hook is the NOOP of the Transformer's new Reader({})
PipeReaderClose ==
  /\ UserCtx
  /\ tailKind = "user"
  /\ ~pR[nT].closed
  /\ LET p == Reader_close(pR[nT])
     IN /\ OnReader(nT, p)
        /\ mq' = Enqueued(mq, PTasksOf(nT, p.ev))
  /\ userTurn' = (mq' # <<>>)
  /\ UNCHANGED <<nT, tailKind, pW, pump, psink, ureads, pcalls, flushCalls,
                 pipeCloseCalls, aborted, rvars, wvars, rstart, pulls, iter>>

\* pump s writes an item to the Writer of a Transformer whose transform
\* hook rejects, enqueueing nothing
PipeTransformFails ==
  /\ mq # <<>> /\ Head(mq).t = "pPumpRead"
  /\ LET t == Head(mq)
         w == write(pW[t.s], 0)
     IN /\ t.s <= nT
        /\ pipeOneChunk(t.ok, t.val) = "write"
        /\ w.st = "hook"
        /\ pW' = [pW EXCEPT ![t.s] = w.wr]
        /\ pump' = [pump EXCEPT ![t.s] = [st |-> "write", v |-> t.val]]
        /\ mq' = Append(Tail(mq), PTask("pWriteThen", t.s, 0, FALSE, HookReason(0)))
  /\ userTurn' = TRUE
  /\ UNCHANGED <<nT, tailKind, pR, pacc, psink, ureads, pcalls, flushCalls,
                 pipeCloseCalls, aborted, rvars, wvars, rstart, pulls, iter>>

\* ======================================================= specifications
vars == <<rd, reads, enqs, ctlCloses, accepted, errCalls, errReason, rdCloses,
          cancelCalls, wr, wstart, startWaiters, writes, sinkLog, wOther,
          closeHookCalls, abortHookCalls, mq, userTurn, rstart, pulls, iter, pvars>>

\* the Reader, its producer and its consumer
Init ==
  InitReader /\ InitWriter /\ InitExtra /\ NoPipe /\ mq = <<>> /\ userTurn = TRUE

Next ==
  \/ Read \/ Enqueue \/ CtlClose \/ CtlError \/ RdClose
  \/ Defer \/ RunUser
  \/ RunReadThen \/ RunCloseThen

Spec == Init /\ [][Next]_vars

\* the Reader fed by its pull loop, and a consumer
NextPull ==
  \/ Read \/ Enqueue
  \/ SettleRStart \/ RunPullIfNeeded \/ SettlePull
  \/ Defer \/ RunUser
  \/ RunReadThen \/ RunCloseThen

SpecPull == Init /\ [][NextPull]_vars

\* the Reader fed by a source whose hooks may fail, a consumer that reads
\* and closes, and controller.error()
NextSource ==
  \/ Read \/ RdClose \/ CtlError
  \/ SettleRStart \/ RunPullIfNeeded \/ SettlePull \/ FailPull
  \/ RunUser
  \/ RunReadThen \/ RunCloseThen

SpecSource == Init /\ [][NextSource]_vars

\* the Reader read by a 'for await' loop that breaks, and read on after it
NextIter ==
  \/ IterNext \/ IterBreak
  \/ (iter # "running" /\ Read)
  \/ Enqueue \/ CtlClose
  \/ Defer \/ RunUser
  \/ RunReadThen \/ RunCloseThen

SpecIter == Init /\ [][NextIter]_vars

\* a chain of pipes, the producer of its source and what ends it
InitP ==
  /\ InitReader /\ rd.buffer.cap = 1
  /\ InitWriter /\ InitExtra /\ InitPipe

NextP ==
  \/ PipeStart \/ PipeProduce \/ PipeRead \/ PipeSettleSink
  \/ RunUser
  \/ PipeRunStart \/ PipeRunReadThen \/ PipeRunPumpRead \/ PipeRunWriteThen
  \/ PipeRunPumpWrote \/ PipeRunFlushThen \/ PipeRunCloseThen \/ PipeRunPumpEnd

SpecPipe == InitP /\ [][NextP]_vars

\* a source piped through one Transformer whose transform hook may reject
\* and whose Reader the user reads and closes
InitT == InitP /\ nT = 1 /\ tailKind = "user"

NextT ==
  \/ PipeStart \/ PipeProduce \/ PipeRead \/ PipeReaderClose
  \/ RunUser
  \/ PipeRunStart \/ PipeRunReadThen \/ PipeRunPumpRead \/ PipeTransformFails
  \/ PipeRunWriteThen \/ PipeRunPumpWrote \/ PipeRunFlushThen \/ PipeRunCloseThen

SpecTransformer == InitT /\ [][NextT]_vars

\* the Writer, its sink and its callers
InitW == Init /\ rd.buffer.cap = 1

NextW ==
  \/ Write \/ SettleStart \/ SettleWrite \/ WClose \/ WAbort \/ SinkError
  \/ Defer \/ RunUser
  \/ RunWStartThen \/ RunWStartCbWrite \/ RunWStartCbClose
  \/ RunWriteThen \/ RunWaiterCb

SpecWriter == InitW /\ [][NextW]_vars

\* ================================================================ Reader
RECURSIVE ItemsBeforeEOF(_)
\* the items the channel accepted before it accepted EOF
ItemsBeforeEOF(acc) ==
  IF acc = <<>> \/ Head(acc) = EOF THEN <<>>
  ELSE <<Head(acc)>> \o ItemsBeforeEOF(Tail(acc))

EOFAccepted == \E i \in 1..Len(accepted) : accepted[i] = EOF

\* the producer only enqueued and then closed; nobody called error() or
\* Reader.close()
EnqueuedThenClosed ==
  /\ errCalls = 0
  /\ rdCloses = 0
  /\ \A i \in 1..Len(enqs) : ~enqs[i].late

\* nothing is left to run: every reaction to a settled promise has run
Quiet == mq = <<>>

\* the k-th read() returned the k-th item, or finished after all the items
InOrder(k) ==
  LET its == ItemsBeforeEOF(accepted)
  IN /\ reads[k].st # "rej"
     /\ reads[k].st = "val" => k <= Len(its) /\ reads[k].v = its[k]
     /\ reads[k].st = "done" => EOFAccepted /\ k > Len(its)

\* C1: N items enqueued and then controller.close(), for every capacity:
\* read() calls made one after the other return the items in enqueue
\* order, then {done:true}, and {done:true} ever after; once the close has
\* completed none of them is left pending.
C1_SequentialReads ==
  EnqueuedThenClosed =>
    \A k \in 1..Len(reads) :
      (\A j \in 1..k : reads[j].seq) =>
        /\ InOrder(k)
        /\ (Quiet /\ EOFAccepted) => Final(reads[k].st)

C1_Witness ==
  /\ EnqueuedThenClosed
  /\ rd.buffer.cap = 1
  /\ Len(ItemsBeforeEOF(accepted)) = 2
  /\ Len(reads) = 3
  /\ \A k \in 1..3 : reads[k].seq
  /\ reads[1].st = "val" /\ reads[2].st = "val" /\ reads[3].st = "done"

\* C2: read() calls issued together before any data exists resolve in the
\* order they were issued: the k-th gets the k-th item enqueued, those
\* beyond the last item get {done:true} once the producer closes, and none
\* is left pending after the close.
C2_PendingReadsInOrder ==
  EnqueuedThenClosed =>
    \A k \in 1..Len(reads) :
      reads[k].early =>
        /\ InOrder(k)
        /\ \A j \in 1..k : Final(reads[k].st) => Final(reads[j].st)
        /\ (Quiet /\ EOFAccepted) => Final(reads[k].st)

C2_Witness ==
  /\ EnqueuedThenClosed
  /\ Len(reads) = 3
  /\ \A k \in 1..3 : reads[k].early
  /\ ~reads[2].seq /\ ~reads[3].seq
  /\ reads[1].st = "val" /\ reads[2].st = "done" /\ reads[3].st = "done"

\* the read() rejected with exactly the reason given to controller.error()
RejectedWithReason(k) == reads[k].st = "rej" /\ reads[k].v = errReason

\* C3 as stated: after controller.error(reason) on an open Reader every
\* read() whose promise was pending at that moment and every later read()
\* rejects with exactly reason.
C3_AsStated ==
  \A k \in 1..Len(reads) :
    (reads[k].err # "none" /\ Final(reads[k].st)) => RejectedWithReason(k)

\* C3, amended: after controller.error(reason) on an open Reader every
\* read() still waiting in the channel at that moment and every later
\* read() rejects with exactly reason, and none is left pending; the items
\* still in the buffer are discarded.  A read() that the channel had
\* already handed an item (or EOF) before error() was called still
\* returns what it was handed.
C3_ErrorRejectsReads ==
  /\ \A k \in 1..Len(reads) :
       /\ (reads[k].err \in {"pend", "after"} /\ Final(reads[k].st))
            => RejectedWithReason(k)
       /\ (reads[k].err \in {"pend", "after"} /\ Quiet) => Final(reads[k].st)
       /\ reads[k].err = "handed" => reads[k].st \in {"handed", "val", "done"}
  /\ rd.isError => rd.buffer.items = <<>> /\ rd.error = errReason

C3_Witness ==
  /\ Len(reads) = 2
  /\ reads[1].err = "pend" /\ RejectedWithReason(1)
  /\ reads[2].err = "after" /\ RejectedWithReason(2)

\* C4 as stated: after Reader.close() on a Reader that has not errored every
\* read() whose promise was pending at the close and every later read()
\* resolves with {done:true}.
C4_AsStated ==
  ~rd.isError =>
    \A k \in 1..Len(reads) :
      (reads[k].cls # "none" /\ Final(reads[k].st)) => reads[k].st = "done"

\* C4, amended: after Reader.close() on a Reader that has not errored every
\* read() still waiting in the channel at the close and every later read()
\* resolves with {done:true}; a read() that the channel had already handed
\* an item before the close resolves with that item; none rejects and
\* none is left pending.
C4_CloseFinishesReads ==
  ~rd.isError =>
    \A k \in 1..Len(reads) :
      /\ (reads[k].cls \in {"pend", "after"} /\ Final(reads[k].st))
           => reads[k].st = "done"
      /\ reads[k].cls # "none" => reads[k].st # "rej"
      /\ (reads[k].cls # "none" /\ Quiet) => Final(reads[k].st)

C4_Witness ==
  /\ ~rd.isError
  /\ Len(reads) = 2
  /\ reads[1].cls = "pend" /\ reads[1].st = "done"
  /\ reads[2].cls = "after" /\ reads[2].st = "done"

C5_AfterClose ==
  \A k \in 1..Len(reads) :
    reads[k].cls = "after" =>
      /\ Final(reads[k].st) =>
           IF rd.isError THEN RejectedWithReason(k) ELSE reads[k].st = "done"
      /\ Quiet => Final(reads[k].st)

C5_CloseIdempotent ==
  [][(rdCloses >= 1 /\ rdCloses' > rdCloses) => rd' = rd]_vars

C6_Rejected ==
  /\ \A i \in 1..Len(enqs) :
       enqs[i].term =>
         /\ enqs[i].st = "rej"
         /\ \A j \in 1..Len(accepted) : accepted[j] # i
         /\ \A j \in 1..Len(rd.buffer.items) : rd.buffer.items[j] # i
  /\ ((rd.closed \/ rd.isError) /\ Quiet)
       => \A i \in 1..Len(enqs) : enqs[i].st # "pend"

C6_NeverAccepted ==
  [][(rd.closed \/ rd.isError) =>
       \A i \in 1..Len(enqs) :
         /\ enqs[i].st = "pend" => enqs'[i].st # "ok"
         /\ enqs[i].st = "ok" => enqs'[i].st = "ok"]_vars

C6_NoEnqueueAfterTerminal == []C6_Rejected /\ C6_NeverAccepted

C6_Witness ==
  /\ Len(enqs) = 3
  /\ enqs[1].st = "ok"
  /\ ~enqs[2].term /\ enqs[2].st = "rej"
  /\ enqs[3].term /\ enqs[3].st = "rej"

\* ================================================================ Writer
InSink == {i \in 1..Len(writes) : writes[i].st = "hook"}
Delivered == {sinkLog[n] : n \in 1..Len(sinkLog)}
Waiting(i) == writes[i].st \in {"start", "queued", "released"}

\* C7: at most one invocation of the sink's write hook is in flight: the
\* hook is never invoked while an earlier invocation has not settled.
C7_OneWriteInFlight == Cardinality(InSink) <= 1

\* C8: concurrent write() calls reach the sink in call order: no write()
\* has reached the sink while a write() called before it still waits.
C8_DeliveredInCallOrder ==
  \A j \in Delivered : \A i \in 1..(j - 1) : ~Waiting(i)

\* C9: when the write hook rejects for one write(), that call alone rejects,
\* with exactly the hook's reason; the Writer stays usable (neither closed
\* nor errored by it, no write left pending), and the next waiting write()
\* is released, and delivered as if the previous write had succeeded.
C9_Isolated ==
  /\ \A i \in 1..Len(writes) :
       /\ (writes[i].h = "rej" /\ WFinal(writes[i].st))
            => writes[i].st = "rej" /\ writes[i].v = HookReason(i)
       /\ (writes[i].st = "rej" /\ writes[i].h # "rej")
            => writes[i].v \in {WriterClosed, WriterAborted, StartReason}
                                  \cup (AbortReasons \ {Undefined})
       /\ (writes[i].st = "rej" /\ writes[i].h # "rej" /\ wstart = "started")
            => wr.isClosed \/ wr.isError
  /\ (mq = <<>> /\ ~wr.isClosed /\ ~wr.isError /\ wstart = "started"
        /\ \A i \in 1..Len(writes) : writes[i].st \notin {"hook", "hookDone"})
       => \A i \in 1..Len(writes) : WFinal(writes[i].st)

C9_NextReleased ==
  [][\A i \in 1..Len(writes) :
       (writes[i].st = "hookDone" /\ writes'[i].st = "rej")
         => /\ wr'.isClosed = wr.isClosed /\ wr'.isError = wr.isError
            /\ ~wr'.writePending
            /\ wr.waitingWrites # <<>> =>
                 /\ wr'.waitingWrites = Tail(wr.waitingWrites)
                 /\ writes'[Head(wr.waitingWrites)].st = "released"]_vars

C9_HookFailureIsolated == []C9_Isolated /\ C9_NextReleased

C9_Witness ==
  /\ Len(writes) >= 2
  /\ writes[1].h = "rej" /\ writes[1].st = "rej" /\ writes[1].v = HookReason(1)
  /\ writes[2].queued /\ writes[2].st = "ok"
  /\ sinkLog = <<1, 2>>
  /\ ~wr.isClosed /\ ~wr.isError

RECURSIVE PreOnly(_)
\* the writes called while the start hook was running, as the sink got them
PreOnly(log) ==
  IF log = <<>> THEN <<>>
  ELSE IF writes[Head(log)].pre THEN <<Head(log)>> \o PreOnly(Tail(log))
       ELSE PreOnly(Tail(log))

Increasing(q) == \A m, n \in 1..Len(q) : m < n => q[m] < q[n]

\* C10: the sink's write hook is never invoked before the sink's start hook
\* has resolved: the write() calls made while start is running wait for it,
\* then reach the sink in call order, and each resolves only after start
\* and its own sink write have completed.
C10_WritesWaitForStart ==
  /\ sinkLog # <<>> => wr.isStarted /\ wstart = "started"
  /\ Increasing(PreOnly(sinkLog))
  /\ \A i \in 1..Len(writes) :
       writes[i].pre =>
         /\ writes[i].st = "ok" => wr.isStarted /\ writes[i].h = "ok" /\ i \in Delivered
         /\ wstart \in {"pending", "settled"} => writes[i].st = "start"

C10_Witness ==
  /\ Len(writes) >= 2
  /\ writes[1].pre /\ writes[2].pre
  /\ writes[1].st = "ok" /\ writes[2].st = "ok"
  /\ sinkLog = <<1, 2>>

\* the reason a write() rejects with when the Writer holds `reason`: no
\* reason given stands for new Error("Writer is aborted")
RejectsWith(reason) == IF reason = Undefined THEN WriterAborted ELSE reason

\* C11 (as stated): a write() called on a started Writer after abort(reason)
\* or controller.error(reason) rejects with exactly the reason stored at the
\* time of the call and never reaches the sink, whatever close(), abort() or
\* error() calls follow.
C11_AsStated ==
  \A i \in 1..Len(writes) :
    (writes[i].err /\ ~writes[i].pre /\ wstart = "started" /\ WFinal(writes[i].st))
      => /\ writes[i].st = "rej"
         /\ writes[i].v = RejectsWith(writes[i].reason)
         /\ i \notin Delivered

\* C12 (as stated): over any sequence of operations the sink's close hook
\* is invoked at most once.
C12_AsStated == closeHookCalls <= 1

\* ======================================================= Reader: pull loop
\* the channel never holds more than its capacity; a pending enqueue() means
\* a full channel; only the latest invocation of the pull hook is running
C18_Bounded ==
  /\ Len(rd.buffer.items) <= rd.buffer.cap
  /\ \A i \in 1..Len(enqs) :
       enqs[i].st = "pend" => Len(rd.buffer.items) = rd.buffer.cap
  /\ \A n \in 1..(Len(pulls) - 1) : pulls[n].st # "run"
  /\ \A n \in 1..Len(pulls) :
       (pulls[n].kind = "enq" /\ enqs[pulls[n].id].st = "pend")
         => n = Len(pulls) /\ pulls[n].st = "run"

\* a pending enqueue() is accepted only by the read() that frees a slot
C18_PendingUntilRead ==
  [][\A i \in 1..Len(enqs) :
       (enqs[i].st = "pend" /\ enqs'[i].st = "ok")
         => Len(reads') = Len(reads) + 1]_vars

\* with the producer stalled by a slower consumer, the read() calls made one
\* after the other still return every item once, in order
C18_Delivered ==
  EnqueuedThenClosed =>
    \A k \in 1..Len(reads) :
      (\A j \in 1..k : reads[j].seq) =>
        /\ InOrder(k)
        /\ (Quiet /\ EOFAccepted) => Final(reads[k].st)

\* C18: the channel of a Reader (EOF included) never holds more items than
\* its capacity: an enqueue() issued while it is full stays pending until a
\* read() frees a slot, the pull hook is not invoked again while the
\* enqueue() awaited by the previous invocation is pending, and every item
\* is still delivered once and in order.
C18_Backpressure == [](C18_Bounded /\ C18_Delivered) /\ C18_PendingUntilRead

C18_Witness ==
  /\ rd.buffer.cap = 1
  /\ Len(pulls) = 3 /\ pulls[3].kind = "enq" /\ pulls[3].st = "run"
  /\ enqs[pulls[3].id].st = "pend"
  /\ Len(rd.buffer.items) = 1
  /\ Len(reads) = 1 /\ reads[1].st = "val" /\ reads[1].v = 1

\* =================================================== Reader: the iterator
\* the return() of the iterator changes nothing
C20_ReturnLeavesReader ==
  [][(iter = "running" /\ iter' = "broken")
       => rd' = rd /\ cancelCalls' = cancelCalls /\ accepted' = accepted]_vars

\* after the break the read() calls go on where the loop stopped
C20_ReadsGoOn ==
  (iter = "broken" /\ EnqueuedThenClosed) =>
    /\ ~rd.isError /\ cancelCalls = 0
    /\ \A k \in 1..Len(reads) :
         (\A j \in 1..k : reads[j].seq) =>
           /\ InOrder(k)
           /\ (Quiet /\ EOFAccepted) => Final(reads[k].st)

\* C20: breaking out of a 'for await' loop over a Reader leaves the Reader
\* untouched: it is not closed, its cancel hook is not invoked, no buffered
\* item is discarded, and the read() calls made afterwards deliver the
\* remaining items in order, starting after the last item the loop got.
C20_BreakLeavesReader == []C20_ReadsGoOn /\ C20_ReturnLeavesReader

C20_Witness ==
  /\ iter = "broken" /\ EnqueuedThenClosed
  /\ Len(reads) = 3
  /\ \A k \in 1..3 : reads[k].seq
  /\ reads[1].st = "val" /\ reads[1].v = 1
  /\ reads[2].st = "val" /\ reads[2].v = 2
  /\ reads[3].st = "done"

\* ================================================================= pipes
\* the items the source's channel accepted, and a sequence mapped by k
\* transforms
SrcItems == ItemsBeforeEOF(pacc[0])
Mapped(its, k) == [n \in 1..Len(its) |-> its[n] + k * Wrap]
SinkGot == [n \in 1..Len(psink) |-> psink[n].v]
IsPrefix(a, b) == Len(a) <= Len(b) /\ \A n \in 1..Len(a) : a[n] = b[n]
Has(q, x) == \E n \in 1..Len(q) : q[n] = x

PipeTo == tailKind = "writer"
AllPumping == tailKind # "none" /\ \A j \in 1..NP : pump[j].st # "off"
\* the source closes normally: close() was called and no error() took effect
SrcClosing == ~pR[0].pullAlg /\ ~pR[0].isError
\* the source errored while open, no close() of it had been accepted
SrcErrored == pR[0].isError /\ ~Has(pacc[0], EOF)
\* a write hook of the destination's sink rejected
SinkFailed == \E n \in 1..Len(psink) : psink[n].st = "rej"
\* no flush hook enqueued an item
NoFlushItems == \A j \in 1..nT : ~Has(pacc[j], FlushItem)
\* nothing is left to run and no hook of the destination's sink is running
PipeQuiet ==
  /\ mq = <<>>
  /\ \A n \in 1..Len(psink) : psink[n].st # "hook"
  /\ PipeTo => pump[NP].st \notin {"close", "abort"}

\* ---------------------------------------------------------------- pipeTo
C13_InOrder ==
  (PipeTo /\ ~pR[0].isError /\ ~SinkFailed) =>
    /\ \A n \in 1..(Len(psink) - 1) : psink[n].st = "ok"
    /\ IsPrefix(SinkGot, ItemsBeforeEOF(pacc[nT]))
    /\ pipeCloseCalls <= 1
    /\ pipeCloseCalls = 1 =>
         /\ Has(pacc[nT], EOF)
         /\ SinkGot = ItemsBeforeEOF(pacc[nT])
         /\ \A n \in 1..Len(psink) : psink[n].st = "ok"
    /\ pump[NP].st = "done" => pipeCloseCalls = 1 /\ aborted[NP] = <<>>

C13_ResolvesAfterClose ==
  [][(PipeTo /\ pump[NP].st # "done" /\ pump'[NP].st = "done")
       => pump[NP].st = "closed" /\ pipeCloseCalls = 1]_vars

\* C13: in reader.pipeTo(writer) on a source that closes normally (and a
\* sink whose write hook resolves) the write of an item is issued only
\* after the write of the item before it has settled, the sink receives
\* the source's items in order, none lost or duplicated, the close hook is
\* invoked once, after the last write has settled, and pipeTo resolves
\* only after that close has completed.
C13_PipeToInOrder == []C13_InOrder /\ C13_ResolvesAfterClose

C13_Witness ==
  /\ PipeTo /\ nT = 0 /\ ~pR[0].isError
  /\ pump[1].st = "done"
  /\ Len(psink) = 2 /\ psink[1].st = "ok" /\ psink[2].st = "ok"
  /\ SinkGot = SrcItems
  /\ pipeCloseCalls = 1

C14_Aborted ==
  (PipeTo /\ SrcErrored /\ ~SinkFailed) =>
    /\ pipeCloseCalls = 0
    /\ aborted[NP] \in {<<>>, <<pR[0].error>>}
    /\ (pump[NP].st = "fail" /\ pump[NP].v # AbortHookReason)
         => pump[NP].v = pR[0].error /\ aborted[NP] = <<pR[0].error>>
    /\ IsPrefix(SinkGot, Mapped(SrcItems, nT))
    /\ (AllPumping /\ PipeQuiet)
         => pump[NP].st = "fail" /\ aborted[NP] = <<pR[0].error>>

C14_NothingAfterAbort ==
  [][(PipeTo /\ aborted[NP] # <<>>) => Len(psink') = Len(psink)]_vars

C15_ChainTerminates ==
  (PipeTo /\ nT >= 1 /\ ~pR[0].isError /\ ~SinkFailed /\ NoFlushItems) =>
    /\ IsPrefix(SinkGot, Mapped(SrcItems, nT))
    /\ (SrcClosing /\ AllPumping /\ PipeQuiet) =>
         /\ pump[NP].st = "done"
         /\ SinkGot = Mapped(SrcItems, nT)
         /\ \A n \in 1..Len(psink) : psink[n].st = "ok"
         /\ pipeCloseCalls = 1
         /\ \A j \in 1..nT : pump[j].st = "done" /\ flushCalls[j] = 1

C15_Witness ==
  /\ PipeTo /\ nT = MaxT /\ SrcClosing /\ NoFlushItems
  /\ \A j \in 0..nT : pR[j].buffer.cap = 1
  /\ pump[NP].st = "done"
  /\ Len(SrcItems) = 3
  /\ SinkGot = Mapped(SrcItems, nT)
  /\ pipeCloseCalls = 1

\* ----------------------------------------------------------- pipeThrough
\* C16 as stated: after the source has errored, every read() of the last
\* Reader that was pending when that Reader became Errored, and every
\* read() issued afterwards, rejects with exactly the reason.
C16_AsStated ==
  (tailKind = "user" /\ SrcErrored) =>
    \A k \in 1..Len(ureads) :
      ((ureads[k].err \/ ureads[k].pend) /\ Final(ureads[k].st))
        => ureads[k].st = "rej" /\ ureads[k].v = pR[0].error

\* C16: when the source Reader errors with reason while pumped by
\* pipeThrough, the Transformer's Writer is aborted with reason and the
\* Transformer's Reader becomes Errored with reason once the pump is not
\* held by a write; every read() waiting in the channel then, and every
\* read() issued afterwards, rejects with exactly reason; a read() that had
\* been handed an item before resolves with it; none returns {done:true} or
\* stays pending.
C16_ErrorThroughTransformer ==
  (tailKind = "user" /\ SrcErrored) =>
    /\ \A j \in 1..nT :
         pR[j].isError =>
           /\ pR[j].error = pR[0].error
           /\ aborted[j] = <<pR[0].error>>
           /\ pW[j].isError /\ pW[j].error = pR[0].error
    /\ \A k \in 1..Len(ureads) :
         /\ ureads[k].st # "done"
         /\ (ureads[k].err /\ Final(ureads[k].st))
              => ureads[k].st = "rej" /\ ureads[k].v = pR[0].error
         /\ ureads[k].st = "rej" => ureads[k].v = pR[0].error
    /\ (AllPumping /\ PipeQuiet) =>
         /\ \A k \in 1..Len(ureads) : Final(ureads[k].st)
         /\ (\A j \in 1..nT : pump[j].st # "write") => pR[nT].isError

C16_Witness ==
  /\ tailKind = "user" /\ SrcErrored /\ PipeQuiet
  /\ aborted[1] = <<pR[0].error>>
  /\ pR[nT].isError /\ pR[nT].error = pR[0].error
  /\ Len(ureads) = 3
  /\ ureads[1].st = "val"
  /\ ureads[2].pend /\ ureads[2].st = "rej" /\ ureads[2].v = pR[0].error
  /\ ureads[3].err /\ ureads[3].st = "rej" /\ ureads[3].v = pR[0].error

\* C17: closing a Transformer's Writer invokes the flush hook once and
\* closes the Transformer's Reader only after flush has resolved; every
\* item enqueued by transform or by flush is delivered to the read() calls
\* on the Transformer's Reader in enqueue order, before the first
\* {done:true}.
C17_FlushThenClose ==
  (tailKind = "user" /\ ~pR[0].isError) =>
    /\ \A j \in 1..nT :
         /\ flushCalls[j] <= 1
         /\ (Has(pacc[j], EOF) \/ pR[j].closed)
              => flushCalls[j] = 1 /\ pump[j].st \in {"eof", "done"}
         /\ pump[j].st = "flush" => ~Has(pacc[j], EOF)
    /\ LET its == ItemsBeforeEOF(pacc[nT])
       IN \A k \in 1..Len(ureads) :
            /\ ureads[k].st # "rej"
            /\ ureads[k].st = "val" => k <= Len(its) /\ ureads[k].v = its[k]
            /\ ureads[k].st = "done" => Has(pacc[nT], EOF) /\ k > Len(its)
    /\ (PipeQuiet /\ pump[nT].st = "done") =>
         \A k \in 1..Len(ureads) : Final(ureads[k].st)

C17_Witness ==
  /\ tailKind = "user" /\ nT = 1 /\ ~pR[0].isError
  /\ flushCalls[1] = 1 /\ pump[1].st = "done"
  /\ ItemsBeforeEOF(pacc[1]) = <<1 + Wrap, FlushItem>>
  /\ Len(ureads) = 3
  /\ ureads[1].st = "val" /\ ureads[1].v = 1 + Wrap
  /\ ureads[2].st = "val" /\ ureads[2].v = FlushItem
  /\ ureads[3].st = "done"

RECURSIVE SumCaps(_)
SumCaps(j) == IF j < 0 THEN 0 ELSE pR[j].buffer.cap + SumCaps(j - 1)

\* what the source's channel accepted and the last Reader has not given out
InFlight == Len(pacc[0]) - (Len(pacc[nT]) - Len(pR[nT].buffer.items))

C19_Bounded ==
  (tailKind = "user" /\ ~pR[0].isError) =>
    /\ InFlight <= SumCaps(nT) + nT
    /\ \A j \in 1..nT :
         /\ pump[j].st = "write" => pR[j - 1].buffer.pullers = <<>>
         /\ pR[j].buffer.pushers # <<>> =>
              /\ Len(pR[j].buffer.items) = pR[j].buffer.cap
              /\ pump[j].st \in {"write", "flush", "eof"}
              /\ pump[j].st = "write" => pW[j].writePending

C19_StallsUntilRead ==
  [][(tailKind = "user" /\ ~pR[0].isError
        /\ pR[nT].buffer.pushers # <<>> /\ pR'[nT].buffer.pushers = <<>>)
       => Len(ureads') = Len(ureads) + 1]_vars

\* C19: backpressure propagates upstream through a Transformer: once the
\* Transformer's channel is full the enqueue of transform stays pending
\* until a read(), the write on the Transformer's Writer stays in flight,
\* the pump issues no read() on the source meanwhile, and the items the
\* source's channel accepted that the consumer has not got are at most the
\* capacities of the channels plus the one item each pump holds.
C19_BackpressureUpstream == []C19_Bounded /\ C19_StallsUntilRead

C19_Witness ==
  /\ tailKind = "user" /\ nT = 1 /\ ~pR[0].isError /\ PipeQuiet
  /\ ureads = <<>>
  /\ pump[1].st = "write" /\ pW[1].writePending
  /\ pR[1].buffer.pushers # <<>>
  /\ pR[0].buffer.pushers # <<>>
  /\ InFlight = SumCaps(nT) + nT

\* ============================================= Reader: terminal states
\* C21 as stated: a Reader's Closed and Errored states are mutually
\* exclusive: in every reachable state at most one of the two is set.
C21_AsStated == ~(rd.closed /\ rd.isError)

\* C22 as stated: EOF is the last item the channel produces: no item is
\* accepted into the channel behind EOF, and once a read() has returned
\* {done:true} no later read() returns {done:false}.
C22_AsStated ==
  /\ \A i, j \in 1..Len(accepted) :
       (i < j /\ accepted[i] = EOF) => accepted[j] = EOF
  /\ \A i, j \in 1..Len(reads) :
       (i < j /\ reads[i].st = "done") => reads[j].st # "val"

\* ------------------------------------------------- Reader: source hooks
\* C23 as stated: once the Reader is Closed or Errored, by whichever route,
\* the source's pull hook is never invoked again.
C23_AsStated ==
  [][(rd.closed \/ rd.isError) => Len(pulls') = Len(pulls)]_vars

\* a hook of the source has rejected
HookFailed == rstart = "rejected" \/ \E n \in 1..Len(pulls) : pulls[n].st = "rej"

\* C27 as stated: once the source's start hook or pull hook has rejected,
\* the Reader reaches a terminal state and, when nothing is left to run, no
\* read() is left pending.
C27_AsStated ==
  (HookFailed /\ mq = <<>>) =>
    /\ rd.closed \/ rd.isError
    /\ \A k \in 1..Len(reads) : Final(reads[k].st)

\* ---------------------------------------------- Transformer: lifetimes
\* the consumer has closed the Transformer's Reader with Reader.close()
ClosedByConsumer == pR[nT].closed /\ ~Has(pacc[nT], EOF)

\* C25 as stated: closing the Transformer's Reader brings the Transformer's
\* Writer to a terminal state: once Reader.close() has been called and
\* nothing is left to run the Writer is closed or errored.
C25_AsStated ==
  (tailKind = "user" /\ ClosedByConsumer /\ mq = <<>>) =>
    pW[nT].isClosed \/ pW[nT].isError

\* C26 as stated: if a write to the Transformer's Writer rejects while
\* pipeThrough pumps, the Writer is aborted with that reason and, when
\* nothing is left to run, no read() on the returned Reader is left
\* pending.
C26_AsStated ==
  \A j \in 1..nT :
    (tailKind = "user" /\ pump[j].st = "stuck" /\ flushCalls[j] = 0 /\ mq = <<>>) =>
      /\ aborted[j] = <<pump[j].v>>
      /\ j = nT => \A k \in 1..Len(ureads) : Final(ureads[k].st)

\* ------------------------------------------- controller.close(), again
\* C24 as stated: controller.close() called on a Reader that is Closed or
\* Errored is a no-op: its promise resolves, nothing is pushed into the
\* channel, and the Reader is left as it was.
C24_AsStated ==
  [][((rd.closed \/ rd.isError) /\ Len(ctlCloses') = Len(ctlCloses) + 1)
       => /\ ctlCloses'[Len(ctlCloses')] = "noop"
          /\ rd' = rd
          /\ accepted' = accepted]_vars

\* ------------------------------------------------ Writer: waiting writes
\* C28 as stated: every write() settles once the sink's hooks have settled:
\* when the start hook has settled, no write hook is running and nothing
\* is left to run, no write() is left pending.
C28_AsStated ==
  (mq = <<>> /\ wstart \in {"started", "failed"}
     /\ \A i \in 1..Len(writes) : writes[i].st # "hook")
    => \A i \in 1..Len(writes) : WFinal(writes[i].st)

====
